---- MODULE Spec2Model ----
(***************************************************************************)
(* Model of the record-selection engine of CS_master.py (class cs_master). *)
(*                                                                         *)
(* Every natural-log quantity of the program (log spectral accelerations,  *)
(* mu_ln, sigma_ln, the log of a scale factor) is held in fixed point, in  *)
(* tenths of a natural-log unit (LnUnit steps per unit), the model's       *)
(* counterpart of a float.  A scale factor s is held as ln(s): the program *)
(* only multiplies spectra by it (adds ln(s) in log space) and compares it *)
(* with maxScale, and ln is strictly increasing.  Squared-error quantities *)
(* (err, devTotal, minDev and the 10^6 / 10^5 constants of the code) are   *)
(* therefore in units of 1/LnUnit^2.                                       *)
(***************************************************************************)
EXTENDS Integers, Sequences, FiniteSets, TLC

----------------------------------------------------------------------------
(* Bounds of the model *)

MaxGM == 2

MaxBig == 4

MaxLoop == 2

NT == 3

----------------------------------------------------------------------------
(* Fixed-point arithmetic *)

LnUnit == 10

SqUnit == LnUnit * LnUnit

ExpScale == 10 * SqUnit

ExpDom == (0 - 6 * LnUnit)..(6 * LnUnit)

Abs(x) == IF x < 0 THEN 0 - x ELSE x

Sq(x) == x * x

\* x / n rounded to the nearest integer (n > 0)
RoundDiv(x, n) == (2 * x + n) \div (2 * n)

RECURSIVE SqrtIter(_, _, _)
SqrtIter(n, lo, hi) ==
    IF hi - lo <= 1 THEN lo
    ELSE LET mid == (lo + hi) \div 2
         IN  IF mid * mid <= n THEN SqrtIter(n, mid, hi) ELSE SqrtIter(n, lo, mid)

\* floor of the square root of n >= 0 (np.sqrt / np.std), n < 2^30
ISqrt(n) == SqrtIter(n, 0, 32768)

RECURSIVE ExpSeries(_, _, _, _)
ExpSeries(d, term, n, acc) ==
    IF term = 0 THEN acc
    ELSE ExpSeries(d, (term * d) \div (LnUnit * n), n + 1, acc + term)

\* np.exp on the grid: ExpScale * e^(d / LnUnit), by its power series for
\* d >= 0 and as the reciprocal for d < 0
ExpTab ==
    [d \in ExpDom |->
        IF d >= 0 THEN ExpSeries(d, 100 * ExpScale, 1, 0) \div 100
        ELSE (100 * ExpScale * ExpScale) \div ExpSeries(0 - d, 100 * ExpScale, 1, 0)]

ExpFx(d) == ExpTab[d]

RECURSIVE LnIter(_, _, _)
\* the largest d in lo..(hi - 1) with ExpFx(d) <= q, given ExpFx(lo) <= q
LnIter(q, lo, hi) ==
    IF hi - lo <= 1 THEN lo
    ELSE LET mid == (lo + hi) \div 2
         IN  IF ExpFx(mid) <= q THEN LnIter(q, mid, hi) ELSE LnIter(q, lo, mid)

\* np.log of the quotient num / den (both scaled by ExpScale, den > 0), on the
\* grid: the largest d with e^(d / LnUnit) <= num / den
LnFx(num, den) == LnIter((num * ExpScale) \div den, 0 - 6 * LnUnit, 6 * LnUnit + 1)

RECURSIVE SumTo(_, _)
\* sum of f[1] .. f[n]
SumTo(f, n) == IF n = 0 THEN 0 ELSE f[n] + SumTo(f, n - 1)

\* np.sum over a list of indices
SumAt(row, ind) == SumTo([m \in 1..Len(ind) |-> row[ind[m]]], Len(ind))

Periods == 1..NT

\* the target period grid self.T (strictly increasing; tenths of a second)
T == [p \in Periods |-> 5 * p]

----------------------------------------------------------------------------
(* State of one select() run *)

VARIABLES
    self,           \* the cs_master instance: target model and selection settings
    sampleBig,      \* log spectra of the candidate pool, one row per record
    ind1,           \* grid indices of the conditioning periods
    ind2,           \* grid indices used by the convergence check (single T*)
    recID,          \* selected candidate per position (-1: none yet)
    finalScaleFac,  \* ln of the scale factor per position
    sampleSmall,    \* scaled log spectra of the selection, one row per position
    minID,          \* local minID of Phase 2 (Unbound until first assigned)
    k,              \* pass counter of Phase 2
    i,              \* row of Phase 1 / slot of Phase 2
    medianErr,      \* max percent error of the median (Unbound until computed)
    stdErr,         \* max percent error of the standard deviation
    out,            \* printed messages
    pc              \* position in select()

(* State of simulate_spectra() *)

VARIABLES
    np_random,      \* state of the global generator np.random
    specDict,       \* the trial sets generated so far (spectra, not logs)
    devTotalSim,    \* the score of each trial set
    simRuns,        \* the calls completed so far: seedValue and retained sim_spec
    spc             \* position in simulate_spectra()

selVars ==
    <<sampleBig, ind1, ind2, recID, finalScaleFac, sampleSmall, minID, k, i,
      medianErr, stdErr, out, pc>>

simVars == <<np_random, specDict, devTotalSim, simRuns, spc>>

(* State of a call of Baker_Jayaram_2008() *)

VARIABLES
    bjArgs,         \* the arguments <<T1, T2>>
    bjOut           \* the value returned and the branch that gave it (<<>>: none yet)

bjVars == <<bjArgs, bjOut>>

\* create(): the arguments of the call and the locals of the method
VARIABLES
    crArgs,         \* the arguments of the constructor and of create() (<<>>: no call)
    T_Tgt,          \* the period grid of the target, in units of 10^-4 s
    TgtMean,        \* TgtMean[n][x]: mean of ln Sa of scenario n at grid point x
    TgtCov,         \* TgtCov[n]: covariance matrix of scenario n
    TgtMean_fin,    \* mean of ln Sa of the combined target
    TgtCov_fin,     \* covariance matrix of the combined target
    crN,            \* the scenario the loop of create() is at
    cpc             \* position in create()

crVars == <<crArgs, T_Tgt, TgtMean, TgtCov, TgtMean_fin, TgtCov_fin, crN, cpc>>

\* the state outside select() and simulate_spectra()
tgtVars == <<bjVars, crVars>>

vars == <<self, selVars, simVars, tgtVars>>

\* a local variable that has not been assigned (no index, no percentage)
Unbound == -1

nBig == Len(sampleBig)

----------------------------------------------------------------------------
(* Helpers on sequences (np.delete, np.concatenate) *)

Delete(s, n) == [m \in 1..(Len(s) - 1) |-> IF m < n THEN s[m] ELSE s[m + 1]]

InsertAt(s, n, x) ==
    [m \in 1..(Len(s) + 1) |-> IF m < n THEN s[m] ELSE IF m = n THEN x ELSE s[m - 1]]

\* np.any(recID == j)
Contains(s, x) == \E m \in 1..Len(s) : s[m] = x

\* np.where(cond)[0][0]: the first of the indices hits, 0 if there is none
FirstIndex(hits) ==
    IF hits = {} THEN 0 ELSE CHOOSE p \in hits : \A q \in hits : p <= q

\* lines 681-686
Ind1Of(Tstar) == [m \in 1..Len(Tstar) |-> FirstIndex({p \in Periods : T[p] = Tstar[m]})]

Ind2Of(Tstar) == [m \in 1..Len(Tstar) |-> FirstIndex({p \in Periods : T[p] # Tstar[m]})]

----------------------------------------------------------------------------
(* Scale factor and error of a candidate *)

\* ln of scaleFac[j] as it would be with isScaled not looked at
LnScaleFacAlways(j, n) ==
    IF self.cond = 1 THEN
        self.im_Tstar - RoundDiv(SumAt(sampleBig[j], ind1), Len(self.Tstar))
    ELSE
        LnFx(SumTo([p \in Periods |-> ExpFx(sampleBig[j][p] + self.sim_spec[n][p])], NT),
             SumTo([p \in Periods |-> ExpFx(2 * sampleBig[j][p])], NT))

\* ln of scaleFac[j] for simulated row / slot n (lines 696-703 and 739-747)
LnScaleFac(j, n) ==
    IF self.isScaled = 1 THEN
        IF self.cond = 1 THEN
            self.im_Tstar - RoundDiv(SumAt(sampleBig[j], ind1), Len(self.Tstar))
        ELSE
            LnFx(SumTo([p \in Periods |-> ExpFx(sampleBig[j][p] + self.sim_spec[n][p])], NT),
                 SumTo([p \in Periods |-> ExpFx(2 * sampleBig[j][p])], NT))
    ELSE 0

\* the log spectrum of candidate j with the scale factor left out
UnscaledRow(j, lnScale) == sampleBig[j]

\* the scaled log spectrum of candidate j
ScaledRow(j, lnScale) == [p \in Periods |-> sampleBig[j][p] + lnScale]

\* line 710: sum of squared log-space residuals against simulated row n
SqResidual(j, ls, n) ==
    SumTo([p \in Periods |-> Sq(sampleBig[j][p] + ls - self.sim_spec[n][p])], NT)

\* err[j] as it would be without the test of the scale factor against maxScale
Phase1ErrUncapped(j, ls, n, ids) ==
    IF Contains(ids, j) THEN 1000000 * SqUnit ELSE SqResidual(j, ls, n)

\* lines 707-710: err[j] for row n, given the rows selected so far
Phase1ErrWith(j, ls, n, ids) ==
    IF Contains(ids, j) \/ ls > self.maxScale
    THEN 1000000 * SqUnit
    ELSE SqResidual(j, ls, n)

Phase1Err(j, n, ids) == Phase1ErrWith(j, LnScaleFac(j, n), n, ids)

RECURSIVE ArgMinFrom(_, _, _)
\* np.argsort(err)[0]: the first index of the minimum of err (ties keep index order)
ArgMinFrom(err, j, best) ==
    IF j > Len(err) THEN best
    ELSE ArgMinFrom(err, j + 1, IF err[j] < err[best] THEN j ELSE best)

\* the last index of err, where the sort would be taken from the wrong end
ArgLast(err) == Len(err)

ArgMin(err) == ArgMinFrom(err, 2, 1)

----------------------------------------------------------------------------
(* Statistics of a set of log spectra (np.mean, np.std over axis 0) *)

ColSum(S, p) == SumTo([m \in 1..Len(S) |-> S[m][p]], Len(S))

MeanAt(S, p) == RoundDiv(ColSum(S, p), Len(S))

\* population standard deviation (ddof = 0)
StdOf(S, p, n, cs) ==
    ISqrt(SumTo([m \in 1..n |-> Sq(n * S[m][p] - cs)], n) \div (n * n * n))

StdAt(S, p) == StdOf(S, p, Len(S), ColSum(S, p))

\* line 759, summed over the rows: number of (row, period) pairs above
\* mu_ln + 3 sigma_ln (exp is increasing, so the comparison is made in log space)
Exceedances(S) ==
    SumTo([m \in 1..Len(S) |->
              Cardinality({p \in Periods : S[m][p] > self.mu_ln[p] + 3 * self.sigma_ln[p]})],
          Len(S))

\* lines 752-759: weighted deviation of a selection from the target statistics
DevTotal(S) ==
    self.weights[1] * SumTo([p \in Periods |-> Sq(MeanAt(S, p) - self.mu_ln[p])], NT)
    + self.weights[2] * SumTo([p \in Periods |-> Sq(StdAt(S, p) - self.sigma_ln[p])], NT)
    + (IF self.penalty > 0 THEN Exceedances(S) * self.penalty * SqUnit ELSE 0)

\* devTotal as it would be without the test for a record already selected
CandDevRepeating(j, ls, rest, restID) ==
    DevTotal(Append(rest, ScaledRow(j, ls)))
    + (IF ls > self.maxScale THEN 1000000 * SqUnit ELSE 0)

\* devTotal as it would be without the 10^6 penalty
CandDevUnpenalised(j, ls, rest, restID) == DevTotal(Append(rest, ScaledRow(j, ls)))

\* lines 737-763: devTotal of candidate j tried in slot n, the other positions
\* being rest (spectra) and restID (candidate indices)
CandDevWith(j, ls, rest, restID) ==
    DevTotal(Append(rest, ScaledRow(j, ls)))
    + (IF ls > self.maxScale \/ Contains(restID, j) THEN 1000000 * SqUnit ELSE 0)

CandDev(j, n, rest, restID) == CandDevWith(j, LnScaleFac(j, n), rest, restID)

\* line 766 with the comparison turned round
Worsens(devTotal, minDev) == devTotal > minDev

\* line 766: a candidate replaces the best so far
Improves(devTotal, minDev) == devTotal < minDev

RECURSIVE Phase2Scan(_, _, _, _, _, _)
RECURSIVE Phase2Try(_, _, _, _, _, _, _)
\* lines 766-768: candidate j, of deviation devTotal, against the best so far
Phase2Try(j, devTotal, minDev, mID, n, rest, restID) ==
    IF Improves(devTotal, minDev)
    THEN Phase2Scan(j + 1, devTotal, j, n, rest, restID)
    ELSE Phase2Scan(j + 1, minDev, mID, n, rest, restID)

\* lines 737-771: the scan of candidates j..nBig; <<minDev, minID>> at its end
Phase2Scan(j, minDev, mID, n, rest, restID) ==
    IF j > nBig THEN <<minDev, mID>>
    ELSE Phase2Try(j, CandDev(j, n, rest, restID), minDev, mID, n, rest, restID)

\* line 731
MinDevStart == 100000 * SqUnit

\* minID as it would be if the slot's own spectrum were left in the selection
\* while the candidates are tried
SlotWinnerKeeping(S, ids, mID, n) ==
    Phase2Scan(1, MinDevStart, mID, n, S, Delete(ids, n))[2]

\* lines 731-771: minID after the scan of slot n of the selection S / ids, mID being
\* the value minID had before it
SlotWinner(S, ids, mID, n) ==
    Phase2Scan(1, MinDevStart, mID, n, Delete(S, n), Delete(ids, n))[2]

\* lines 778-779 as they would be with the winner left at the end of the
\* selection, where the candidates are tried
InstalledAtEnd(S, win, ls, n) == Append(Delete(S, n), ScaledRow(win, ls))

\* lines 778-779: the selection with candidate win, scaled, put into slot n
Installed(S, win, ls, n) == InsertAt(Delete(S, n), n, ScaledRow(win, ls))

RECURSIVE Phase2Pass(_, _, _, _)
RECURSIVE Phase2PassStep(_, _, _, _)
Phase2PassStep(S, ids, win, n) ==
    IF win = Unbound THEN <<Delete(S, n), Delete(ids, n)>>
    ELSE Phase2Pass(Installed(S, win, LnScaleFac(win, n), n),
                    InsertAt(Delete(ids, n), n, win), win, n + 1)

\* lines 729-780: the slots n..nGM of one pass over the selection S / ids;
\* <<sampleSmall, recID>> at its end
Phase2Pass(S, ids, mID, n) ==
    IF n > Len(S) THEN <<S, ids>>
    ELSE Phase2PassStep(S, ids, SlotWinner(S, ids, mID, n), n)

\* inf or nan of a division by zero: below no tolerance
PctInf == 1000000 * 1000

SetMax(S) == CHOOSE x \in S : \A y \in S : y <= x

\* lines 784 and 787: max percent error of the median over the columns idx
MedianErrOver(S, idx) ==
    SetMax({ (Abs(ExpFx(MeanAt(S, p)) - ExpFx(self.mu_ln[p])) * 100) \div ExpFx(self.mu_ln[p])
             : p \in idx })

\* lines 785 and 788: max percent error of the standard deviation
StdErrOver(S, idx) ==
    SetMax({ IF self.sigma_ln[p] = 0 THEN PctInf
             ELSE (Abs(StdAt(S, p) - self.sigma_ln[p]) * 100) \div self.sigma_ln[p]
             : p \in idx })

\* line 783: the columns the convergence check reads
CheckedPeriods ==
    IF self.cond = 1 /\ Len(ind1) = 1 THEN {ind2[m] : m \in 1..Len(ind2)} ELSE Periods

\* the tolerance test as it would be with one of the two errors sufficing
WithinTolEither(mErr, sErr) == mErr < self.tol \/ sErr < self.tol

\* lines 790 and 796
WithinTol(mErr, sErr) == mErr < self.tol /\ sErr < self.tol

----------------------------------------------------------------------------
(* Inputs of a run *)

\* log spectra are straight lines over the grid: level a, slope b
Line(a, b) == [p \in Periods |-> a + b * p]

\* the records of the database, in database order
Catalogue == <<Line(12, 0), Line(0, -2), Line(-10, -2), Line(12, -6), Line(-6, 2)>>

RECURSIVE Ascending(_)
\* the members of a set of numbers, in increasing order
Ascending(I) ==
    IF I = {} THEN <<>>
    ELSE LET m == CHOOSE x \in I : \A y \in I : x <= y
         IN  <<m>> \o Ascending(I \ {m})

\* candidate pools: what search_database() leaves of the database, at most
\* MaxBig records, in database order
Pools ==
    { [x \in 1..Cardinality(I) |-> Catalogue[Ascending(I)[x]]] :
          I \in {J \in SUBSET (1..Len(Catalogue)) : Cardinality(J) <= MaxBig} }

\* rows of self.sim_spec, the retained simulated spectra
SimRows == {Line(-10, 2), Line(-2, 6)}

\* target model of create(): mu_ln and the sigma_ln away from T*
TargetMeans == {Line(0, -2)}

TargetSigmas == {6}

\* conditioning: unconditional, one T* on the grid, or a T* range (AvgSa)
Conditionings ==
    {<<0, <<>>>>} \cup {<<1, <<T[p]>>>> : p \in {1, 2}} \cup {<<1, <<T[1], T[2]>>>>}

\* isScaled, ln(maxScale), weights, penalty, tol
Settings ==
    { <<1, 13, <<1, 2>>, 0, 10>>,
      <<1, 4, <<1, 2>>, 0, 30>>,
      <<0, 13, <<1, 2>>, 0, 50>>,
      <<1, 13, <<1, 2>>, 100000, 10>> }

\* the instance after create() and the argument copies of lines 646-660
Instance(nGM, nLoop, sim, mu, sig, cnd, st) ==
    LET tstar == cnd[2]
        i1    == Ind1Of(tstar)
    IN  [ nGM |-> nGM, nLoop |-> nLoop, sim_spec |-> sim,
          cond |-> cnd[1], Tstar |-> tstar, T |-> T,
          mu_ln |-> mu,
          sigma_ln |-> [p \in Periods |-> IF Len(tstar) = 1 /\ i1[1] = p THEN 0 ELSE sig],
          cov |-> [p \in Periods |->
                     [q \in Periods |->
                        IF p = q /\ ~(Len(tstar) = 1 /\ i1[1] = p) THEN Sq(sig) ELSE 0]],
          im_Tstar |-> IF cnd[1] = 1 THEN RoundDiv(SumAt(mu, i1), Len(tstar)) ELSE 0,
          isScaled |-> st[1], maxScale |-> st[2], weights |-> st[3],
          penalty |-> st[4], tol |-> st[5],
          rec_scale |-> <<>>, rec_spec |-> <<>>, rec_h1 |-> <<>> ]

\* select() is not running
SelIdle ==
    /\ sampleBig = <<>>
    /\ ind1 = <<>>
    /\ ind2 = <<>>
    /\ recID = <<>>
    /\ finalScaleFac = <<>>
    /\ sampleSmall = <<>>
    /\ minID = Unbound
    /\ k = 0
    /\ i = 0
    /\ medianErr = Unbound
    /\ stdErr = Unbound
    /\ out = <<>>
    /\ pc = "off"

\* simulate_spectra() is not running
SimIdle ==
    /\ np_random = 0
    /\ specDict = <<>>
    /\ devTotalSim = <<>>
    /\ simRuns = <<>>
    /\ spc = "off"

\* Baker_Jayaram_2008() is not running
BJIdle ==
    /\ bjArgs = <<>>
    /\ bjOut = <<>>

CrIdle ==
    /\ crArgs = <<>> /\ T_Tgt = <<>> /\ TgtMean = <<>> /\ TgtCov = <<>>
    /\ TgtMean_fin = <<>> /\ TgtCov_fin = <<>> /\ crN = 0 /\ cpc = "off"

Init ==
    /\ \E nGM \in 1..MaxGM, nLoop \in 0..MaxLoop, mu \in TargetMeans, sig \in TargetSigmas,
          cnd \in Conditionings, st \in Settings :
          \E sim \in [1..nGM -> SimRows] :
              self = Instance(nGM, nLoop, sim, mu, sig, cnd, st)
    /\ sampleBig \in Pools
    /\ ind1 = <<>>
    /\ ind2 = <<>>
    /\ recID = <<>>
    /\ finalScaleFac = <<>>
    /\ sampleSmall = <<>>
    /\ minID = Unbound
    /\ k = 0
    /\ i = 0
    /\ medianErr = Unbound
    /\ stdErr = Unbound
    /\ out = <<>>
    /\ pc = "start"
    /\ SimIdle
    /\ BJIdle /\ CrIdle

----------------------------------------------------------------------------
(* select() *)

\* lines 677-686: the working arrays and the index lists
Start ==
    /\ pc = "start"
    /\ recID' = [m \in 1..self.nGM |-> -1]
    /\ finalScaleFac' = [m \in 1..self.nGM |-> 0]
    /\ sampleSmall' = [m \in 1..self.nGM |-> [p \in Periods |-> LnUnit]]
    /\ IF self.cond = 1
       THEN /\ ind1' = Ind1Of(self.Tstar)
            /\ ind2' = Ind2Of(self.Tstar)
            /\ IF \E m \in 1..Len(self.Tstar) : ind1'[m] = 0 \/ ind2'[m] = 0
               THEN pc' = "error" /\ out' = Append(out, "IndexError")
               ELSE pc' = "phase1" /\ out' = out
       ELSE /\ UNCHANGED <<ind1, ind2, out>>
            /\ pc' = "phase1"
    /\ i' = 1
    /\ UNCHANGED <<self, sampleBig, minID, k, medianErr, stdErr, simVars, tgtVars>>

\* lines 712-722: row i takes candidate best, of error e and scale factor ls
Phase1Pick(best, e, ls) ==
    /\ recID' = [recID EXCEPT ![i] = best]
    /\ IF e >= 1000000 * SqUnit
       THEN /\ pc' = "exit"
            /\ out' = Append(out, "No good matches found")
            /\ UNCHANGED <<finalScaleFac, sampleSmall, i>>
       ELSE /\ finalScaleFac' = [finalScaleFac EXCEPT ![i] = IF self.isScaled = 1 THEN ls ELSE @]
            /\ sampleSmall' = [sampleSmall EXCEPT ![i] = ScaledRow(best, finalScaleFac'[i])]
            /\ out' = out
            /\ IF i < self.nGM
               THEN i' = i + 1 /\ pc' = "phase1"
               ELSE i' = 1 /\ pc' = (IF self.nLoop > 0 THEN "phase2" ELSE "report")

Phase1Choose(err, best) == Phase1Pick(best, err[best], LnScaleFac(best, i))

\* lines 689-722: one row of the initial subset
Phase1Row ==
    /\ pc = "phase1"
    /\ IF nBig = 0
       THEN \* line 712: argsort of an empty array has no element 0
            /\ pc' = "error"
            /\ out' = Append(out, "IndexError")
            /\ UNCHANGED <<recID, finalScaleFac, sampleSmall, i>>
       ELSE Phase1Choose([j \in 1..nBig |-> Phase1Err(j, i, recID)],
                         ArgMin([j \in 1..nBig |-> Phase1Err(j, i, recID)]))
    /\ UNCHANGED <<self, sampleBig, ind1, ind2, minID, k, medianErr, stdErr, simVars, tgtVars>>

\* lines 773-780: the winner win, of scale factor ls, goes into slot i
Phase2Install(win, ls) ==
    /\ minID' = win
    /\ finalScaleFac' = [finalScaleFac EXCEPT ![i] = IF self.isScaled = 1 THEN ls ELSE 0]
    /\ sampleSmall' = Installed(sampleSmall, win, ls, i)
    /\ recID' = InsertAt(Delete(recID, i), i, win)
    /\ out' = out
    /\ IF i < self.nGM
       THEN i' = i + 1 /\ pc' = "phase2"
       ELSE i' = i /\ pc' = "check"

Phase2End(win) ==
    IF win = Unbound
    THEN \* line 775: minID is read before any assignment
         /\ pc' = "error"
         /\ out' = Append(out, "UnboundLocalError")
         /\ sampleSmall' = Delete(sampleSmall, i)
         /\ recID' = Delete(recID, i)
         /\ UNCHANGED <<finalScaleFac, minID, i>>
    ELSE Phase2Install(win, LnScaleFac(win, i))

\* lines 729-780: one slot of one pass of the greedy refinement
Phase2Slot ==
    /\ pc = "phase2"
    /\ Phase2End(SlotWinner(sampleSmall, recID, minID, i))
    /\ UNCHANGED <<self, sampleBig, ind1, ind2, k, medianErr, stdErr, simVars, tgtVars>>

\* lines 782-791: the convergence check at the end of a pass
PassCheck ==
    /\ pc = "check"
    /\ medianErr' = MedianErrOver(sampleSmall, CheckedPeriods)
    /\ stdErr' = StdErrOver(sampleSmall, CheckedPeriods)
    /\ IF WithinTol(medianErr', stdErr') \/ k + 1 >= self.nLoop
       THEN pc' = "report" /\ UNCHANGED <<k, i>>
       ELSE pc' = "phase2" /\ k' = k + 1 /\ i' = 1
    /\ UNCHANGED <<self, sampleBig, ind1, ind2, recID, finalScaleFac, sampleSmall, minID, out,
                   simVars, tgtVars>>

\* lines 802-808 as they would be with the statistics of the selection stored
\* over those of the target
PublishedOverTarget(obj, scale, spec, ids) ==
    [obj EXCEPT !.rec_scale = scale, !.rec_spec = spec, !.rec_h1 = ids,
                !.mu_ln = [p \in Periods |-> MeanAt(spec, p)]]

\* lines 802-808: the instance with the selection added to it
Published(obj, scale, spec, ids) ==
    [obj EXCEPT !.rec_scale = scale, !.rec_spec = spec, !.rec_h1 = ids]

\* lines 792-818: the report and the publication of the selection
Publish ==
    /\ pc = "report"
    /\ IF medianErr = Unbound
       THEN \* line 794: medianErr is read without any pass having set it
            /\ pc' = "error"
            /\ out' = out \o <<"Ground Motion selection is finished", "UnboundLocalError">>
            /\ self' = self
       ELSE /\ pc' = "done"
            /\ out' = out \o <<"Ground Motion selection is finished">>
                          \o (IF WithinTol(medianErr, stdErr)
                              THEN <<"The errors are within the target">> ELSE <<>>)
            /\ self' = Published(self, finalScaleFac, sampleSmall, recID)
    /\ UNCHANGED <<sampleBig, ind1, ind2, recID, finalScaleFac, sampleSmall, minID, k, i,
                   medianErr, stdErr, simVars, tgtVars>>

Next == Start \/ Phase1Row \/ Phase2Slot \/ PassCheck \/ Publish

Spec == Init /\ [][Next]_vars

----------------------------------------------------------------------------
(* simulate_spectra(): Monte Carlo sets of spectra and the best scoring one *)

MaxSimGM == 3

MaxTrials == 2

MaxRuns == 2

\* size of the generator's state space
GenModulus == 16

\* np.random.seed(x): the generator state is a fixed function of the seed
SeedState(x) == (11 * x + 6) % GenModulus

\* the generator advances by one variate
NextGen(s) == (5 * s + 3) % GenModulus

RECURSIVE GenAfter(_, _)
\* the generator state after n variates
GenAfter(s, n) == IF n = 0 THEN s ELSE GenAfter(NextGen(s), n - 1)

\* the standard normal variate delivered from state s, in whole units
Normal(s) == (s % 3) - 1

\* np.random.multivariate_normal(mu_ln, cov) drawn from state s: a fixed
\* function of the state and of the target (each period takes its own
\* variate; the coupling between periods is not represented)
MvnRow(s) ==
    [p \in Periods |-> self.mu_ln[p] + ISqrt(self.cov[p][p]) * Normal(GenAfter(s, p))]

\* lines 410-413: the nGM spectra of one trial set, drawn from state s onwards
TrialSet(s) ==
    [m \in 1..self.nGM |->
        [p \in Periods |-> ExpFx(MvnRow(GenAfter(s, (m - 1) * NT))[p])]]

\* np.log of a set of spectra
LogOf(S) == [m \in 1..Len(S) |-> [p \in Periods |-> LnFx(S[m][p], ExpScale)]]

\* scipy.stats.skew over axis 0, in tenths; 0 for a constant column
SkewOf(S, p, n, cs) ==
    LET m2 == SumTo([m \in 1..n |-> Sq(n * S[m][p] - cs)], n)
        m3 == SumTo([m \in 1..n |-> (n * S[m][p] - cs) * Sq(n * S[m][p] - cs)], n)
    IN  IF m2 = 0 THEN 0
        ELSE (10 * m3 * ISqrt(SqUnit * n)) \div (m2 * ISqrt(SqUnit * m2))

SkewAt(S, p) == SkewOf(S, p, Len(S), ColSum(S, p))

\* lines 415-421: the score of a set of log spectra
SimScore(L) ==
    self.weights[1] * SumTo([p \in Periods |-> Sq(MeanAt(L, p) - self.mu_ln[p])], NT)
    + self.weights[2] * SumTo([p \in Periods |-> Sq(StdAt(L, p) - self.sigma_ln[p])], NT)
    + (self.weights[3] * SumTo([p \in Periods |-> Sq(SkewAt(L, p))], NT)) \div 10

\* the seed as it would be if the clock were used whatever the seedValue
SeedFromClock(seedValue, clock) == clock

\* lines 400-403: the argument of np.random.seed
SeedArgument(seedValue, clock) == IF seedValue # 0 THEN 0 ELSE clock

\* values of seedValue
SeedValues == {0, 7, 42}

\* values of sum(gmtime()[:6])
ClockSums == {2071, 2100}

\* mu_ln and sigma_ln of the target
SimTargets == {<<Line(0, -2), Line(4, 0)>>, <<Line(0, -2), Line(0, 2)>>}

\* weights of the mean, the standard deviation and the skewness
SimWeights == {<<1, 2, 3>>, <<1, 2, 0>>, <<1, -2, 3>>}

SimInstance(nGM, nTrials, tgt, w, sv) ==
    [ nGM |-> nGM, nTrials |-> nTrials, T |-> T,
      mu_ln |-> tgt[1], sigma_ln |-> tgt[2],
      cov |-> [p \in Periods |-> [q \in Periods |->
                  (tgt[2][p] * tgt[2][q]) \div (1 + Abs(p - q))]],
      weights |-> w, seedValue |-> sv, sim_spec |-> <<>> ]

SimInit ==
    /\ \E nGM \in 1..MaxSimGM, nTrials \in 1..MaxTrials, tgt \in SimTargets,
          w \in SimWeights, sv \in SeedValues :
          self = SimInstance(nGM, nTrials, tgt, w, sv)
    /\ np_random \in {0, 5}
    /\ specDict = <<>>
    /\ devTotalSim = <<>>
    /\ simRuns = <<>>
    /\ spc = "seed"
    /\ SelIdle
    /\ BJIdle /\ CrIdle

\* the first trial set, as if the scores were not compared
RecUseFirst(scores) == 1

\* line 423: np.argmin(np.abs(devTotalSim))
RecUse(scores) == ArgMin([j \in 1..Len(scores) |-> Abs(scores[j])])

\* lines 400-406
SimSeed ==
    /\ spc = "seed"
    /\ \E clock \in ClockSums :
          np_random' = SeedState(SeedArgument(self.seedValue, clock))
    /\ specDict' = <<>>
    /\ devTotalSim' = <<>>
    /\ spc' = "trial"
    /\ UNCHANGED <<self, simRuns, selVars, tgtVars>>

\* lines 409-421, one trial set
SimTrial ==
    /\ spc = "trial"
    /\ LET S == TrialSet(np_random)
       IN  /\ specDict' = Append(specDict, S)
           /\ devTotalSim' = Append(devTotalSim, SimScore(LogOf(S)))
    /\ np_random' = GenAfter(np_random, self.nGM * NT)
    /\ spc' = IF Len(specDict) + 1 >= self.nTrials THEN "pick" ELSE "trial"
    /\ UNCHANGED <<self, simRuns, selVars, tgtVars>>

\* lines 423-424
SimPick ==
    /\ spc = "pick"
    /\ LET recUse == RecUse(devTotalSim)
           kept   == LogOf(specDict[recUse])
       IN  /\ self' = [self EXCEPT !.sim_spec = kept]
           /\ simRuns' = Append(simRuns, [seedValue |-> self.seedValue, sim_spec |-> kept])
    /\ spc' = "done"
    /\ UNCHANGED <<np_random, specDict, devTotalSim, selVars, tgtVars>>

\* the next call on the same target, with the seedValue of that call (line 654)
SimAgain ==
    /\ spc = "done"
    /\ Len(simRuns) < MaxRuns
    /\ \E sv \in SeedValues : self' = [self EXCEPT !.seedValue = sv]
    /\ spc' = "seed"
    /\ UNCHANGED <<np_random, specDict, devTotalSim, simRuns, selVars, tgtVars>>

SimNext == SimSeed \/ SimTrial \/ SimPick \/ SimAgain

SpecSim == SimInit /\ [][SimNext]_vars

----------------------------------------------------------------------------
(* Baker_Jayaram_2008(): correlation of spectral accelerations at two periods *)

\* periods are held in units of 10^-4 s
PerSec == 10000

\* a correlation coefficient is held in thousandths
RhoScale == 1000

\* 0.109 s, 0.2 s and 0.0099 s
T109 == 1090

T02 == 2000

T0099 == 99

\* pi and pi / 2 in milliradians
PiMrad == 3142

HalfPiMrad == 1571

\* the cosine series of an angle of at most pi / 2, x2 being its square in
\* thousandths of rad^2
CosSeries(x2) ==
    LET t1 == x2 \div 2
        t2 == RoundDiv(t1 * x2, 12000)
        t3 == RoundDiv(t2 * x2, 30000)
        t4 == RoundDiv(t3 * x2, 56000)
    IN  RhoScale - t1 + t2 - t3 + t4

\* np.cos of an angle of -pi..pi in milliradians, in thousandths
CosFx(x) ==
    IF Abs(x) <= HalfPiMrad THEN CosSeries(Sq(x) \div 1000)
    ELSE 0 - CosSeries(Sq(PiMrad - Abs(x)) \div 1000)

\* line 1409 as it would be with the first argument taken for the smaller
BJ_first(T1, T2) == T1

\* line 1409
BJ_t_min(T1, T2) == IF T1 < T2 THEN T1 ELSE T2

\* line 1410
BJ_t_max(T1, T2) == IF T1 > T2 THEN T1 ELSE T2

\* line 1412
BJ_c1(t_min, t_max) ==
    RhoScale - CosFx(HalfPiMrad
                     - (366 * LnFx(t_max, IF t_min > T109 THEN t_min ELSE T109)) \div LnUnit)

\* 1 / (1 + exp(100 t_max - 5)) in thousandths; below a thousandth beyond the
\* domain of ExpFx
BJ_logistic(t_max) ==
    LET x == (100 * LnUnit * t_max) \div PerSec - 5 * LnUnit
    IN  IF x > 6 * LnUnit THEN 0 ELSE (RhoScale * ExpScale) \div (ExpScale + ExpFx(x))

\* lines 1414-1417
BJ_c2(t_min, t_max) ==
    IF t_max < T02
    THEN RhoScale - (105 * (RhoScale - BJ_logistic(t_max)) * (t_max - t_min))
                        \div (RhoScale * (t_max - T0099))
    ELSE 0

\* lines 1419-1422
BJ_c3(t_min, t_max) == IF t_max < T109 THEN BJ_c2(t_min, t_max) ELSE BJ_c1(t_min, t_max)

\* line 1424
BJ_c4(t_min, t_max) ==
    BJ_c1(t_min, t_max)
    + ((ISqrt(RhoScale * BJ_c3(t_min, t_max)) - BJ_c3(t_min, t_max))
          * (RhoScale + CosFx((PiMrad * t_min) \div T109))) \div (2 * RhoScale)

\* lines 1426-1433: the branch that gives rho
BJ_branch(t_min, t_max) ==
    IF t_max <= T109 THEN "c2"
    ELSE IF t_min > T109 THEN "c1"
    ELSE IF t_max < T02 THEN "min(c2, c4)"
    ELSE "c4"

\* lines 1426-1433
BJ_rho(t_min, t_max) ==
    IF t_max <= T109 THEN BJ_c2(t_min, t_max)
    ELSE IF t_min > T109 THEN BJ_c1(t_min, t_max)
    ELSE IF t_max < T02
         THEN (IF BJ_c2(t_min, t_max) < BJ_c4(t_min, t_max)
               THEN BJ_c2(t_min, t_max) ELSE BJ_c4(t_min, t_max))
    ELSE BJ_c4(t_min, t_max)

Baker_Jayaram_2008(T1, T2) == BJ_rho(BJ_t_min(T1, T2), BJ_t_max(T1, T2))

\* periods of the calls: 0.01 s to 2 s, on both sides of 0.109 s and 0.2 s
BJPeriods == {100, 500, 1000, 1090, 1200, 1500, 1900, 2000, 5000, 10000, 20000}

BJInit ==
    /\ bjArgs \in BJPeriods \X BJPeriods
    /\ bjOut = <<>>
    /\ self = [T |-> <<>>]
    /\ SelIdle
    /\ SimIdle
    /\ CrIdle

\* lines 1409-1435
BJCall ==
    /\ bjOut = <<>>
    /\ bjOut' = [ rho |-> Baker_Jayaram_2008(bjArgs[1], bjArgs[2]),
                  branch |-> BJ_branch(BJ_t_min(bjArgs[1], bjArgs[2]),
                                       BJ_t_max(bjArgs[1], bjArgs[2])) ]
    /\ UNCHANGED <<self, bjArgs, selVars, simVars, crVars>>

\* the caller's next pair of periods (lines 321, 1484 and 1530)
BJAgain ==
    /\ bjOut # <<>>
    /\ bjArgs' \in {<<bjArgs[2], bjArgs[1]>>}
    /\ bjOut' = <<>>
    /\ UNCHANGED <<self, selVars, simVars, crVars>>

BJNext == BJCall \/ BJAgain

SpecBJ == BJInit /\ [][BJNext]_vars

----------------------------------------------------------------------------
(* create(): the target spectrum, conditional or unconditional *)

MaxScen == 2

\* a hazard contribution is held in sixtieths
HUnit == 60

\* a variance or covariance is held in thousandths of a squared tenth of a
\* natural-log unit
CovScale == 1000

\* a standard deviation of AvgSa, and its mean, are held in hundredths of a tenth
AvgUnit == 100

\* line 356: the stability floor 1e-10, the smallest magnitude the fixed point holds
CovFloor == 1

\* the argument None, and an attribute that has been deleted
None == <<>>

\* self.database['Periods'], in units of 10^-4 s
DbPeriods == <<500, 1000, 2000, 5000, 10000>>

\* the position of period t in the database
DbIndex(t) == CHOOSE x \in 1..Len(DbPeriods) : DbPeriods[x] = t

\* the rupture scenarios (magnitude and distance) a call may name
Scenarios == {"Mw7.2 Rjb20", "Mw6.5 Rjb5"}

\* line 291: bgmpe.get_mean_and_stddevs, the mean of ln Sa(t) for a scenario
GmpeMean(scn, t) ==
    IF scn = "Mw7.2 Rjb20" THEN <<-8, -5, -6, -12, -20>>[DbIndex(t)]
    ELSE <<2, 6, 4, -6, -16>>[DbIndex(t)]

\* line 291: the total standard deviation of ln Sa(t), the same for every scenario
GmpeSigma(scn, t) == <<5, 5, 4, 4, 5>>[DbIndex(t)]

\* lines 227-230: np.where(temp == np.min(temp))[0][0], the first index of the
\* period of the sequence per nearest to t
NearestIndex(per, t) ==
    FirstIndex({x \in 1..Len(per) :
                   \A y \in 1..Len(per) : Abs(per[x] - t) <= Abs(per[y] - t)})

\* per[a..b], empty when b < a
Slice(per, a, b) == [x \in 1..(IF b >= a THEN b - a + 1 ELSE 0) |-> per[a + x - 1]]

\* lines 227-231: the slice of the period array per from the period nearest to
\* np.min(range) to the period nearest to np.max(range)
TargetGridOf(per, range) ==
    Slice(per, NearestIndex(per, IF range[1] < range[2] THEN range[1] ELSE range[2]),
               NearestIndex(per, IF range[1] < range[2] THEN range[2] ELSE range[1]))

\* lines 227-231: T_Tgt
TargetGrid(range) == TargetGridOf(DbPeriods, range)

\* np.min and np.max of a non-empty sequence
SeqMin(s) == CHOOSE v \in {s[x] : x \in 1..Len(s)} : \A x \in 1..Len(s) : v <= s[x]

SeqMax(s) == CHOOSE v \in {s[x] : x \in 1..Len(s)} : \A x \in 1..Len(s) : v >= s[x]

\* lines 236-242: the AvgSa periods, from the grid point nearest to the lowest T* to
\* the one nearest to the highest
AvgSaPeriods(grid, Tstar) ==
    Slice(grid, NearestIndex(grid, SeqMin(Tstar)), NearestIndex(grid, SeqMax(Tstar)))

\* lines 1479-1481: sigma_lnSaTstar[i], the conversion to sigma_arb with ro_xy = 1
SigmaArb(s) == LnFx(ISqrt((Sq(ExpFx(s)) * 2) \div (1 + 1)), ExpScale)

\* lines 1487-1499: Sa_avg, the mean (in AvgUnit) and the standard deviation (in
\* AvgUnit) of ln AvgSa over the periods Tst
Sa_avg(scn, Tst) ==
    LET n   == Len(Tst)
        sig == [x \in 1..n |-> SigmaArb(GmpeSigma(scn, Tst[x]))]
        sum == SumTo([x \in 1..n |->
                        SumTo([y \in 1..n |->
                                 Baker_Jayaram_2008(Tst[x], Tst[y]) * sig[x] * sig[y]], n)], n)
    IN  [ Sa    |-> RoundDiv(AvgUnit * SumTo([x \in 1..n |-> GmpeMean(scn, Tst[x])], n), n),
          sigma |-> ISqrt((10 * sum) \div (n * n)) ]

\* lines 1528-1536: rho_AvgSA_SA, in thousandths; Avg_sig is the sigma that Sa_avg
\* returns at line 1534
rho_AvgSA_SA(scn, t, Tst, Avg_sig) ==
    RoundDiv(AvgUnit * SumTo([x \in 1..Len(Tst) |->
                                Baker_Jayaram_2008(t, Tst[x]) * GmpeSigma(scn, Tst[x])],
                             Len(Tst)),
             Len(Tst) * Avg_sig)

\* line 305: the epsilon back-calculated from ln(im_Tstar), in thousandths
BackEpsilon(lnIm, avg) == RoundDiv((AvgUnit * lnIm - avg.Sa) * RhoScale, avg.sigma)

\* lines 310 and 313: one entry of TgtMean[:, n]
MeanEntry(cond, mu, rho, rup_eps, sigma) ==
    IF cond = 1 THEN mu + RoundDiv(rho * rup_eps * sigma, RhoScale * RhoScale) ELSE mu

\* lines 318-319: var1 and var2, the squares of the GMPE sigmas
VarOf(sigma) == CovScale * Sq(sigma)

\* line 324: varTstar = sigma_lnSaTstar ** 2
VarTstarOf(Avg_sig) == (CovScale * Sq(Avg_sig)) \div Sq(AvgUnit)

\* line 321: sigma_Corr
SigmaCorr(Ti, Tj, var1, var2) ==
    RoundDiv(Baker_Jayaram_2008(Ti, Tj) * ISqrt(var1 * var2), RhoScale)

\* line 327: one entry of sigma12
Sigma12(rho, var, varTstar) == RoundDiv(rho * ISqrt(var * varTstar), RhoScale)

\* line 329 with the conditioning term taken twice
CondCovTwice(sigma_Corr, s0, s1, varTstar) == sigma_Corr - 2 * ((s0 * s1) \div varTstar)

\* lines 329-330: sigma_cond[0, 1]; the product of the two entries of sigma12 is
\* formed before the quotient by sigma22, so that the fixed point rounds once
CondCov(sigma_Corr, s0, s1, varTstar) == sigma_Corr - ((s0 * s1) \div varTstar)

\* lines 327-330 with the correlation of the row period used for both entries of sigma12
CovEntryOneSided(cond, Ti, Tj, si, sj, ri, rj, varTstar) ==
    IF cond = 1
    THEN CondCov(SigmaCorr(Ti, Tj, VarOf(si), VarOf(sj)),
                 Sigma12(ri, VarOf(si), varTstar), Sigma12(ri, VarOf(sj), varTstar),
                 varTstar)
    ELSE SigmaCorr(Ti, Tj, VarOf(si), VarOf(sj))

\* lines 315-333: Cov[i, j] for one scenario
CovEntry(cond, Ti, Tj, si, sj, ri, rj, varTstar) ==
    IF cond = 1
    THEN CondCov(SigmaCorr(Ti, Tj, VarOf(si), VarOf(sj)),
                 Sigma12(ri, VarOf(si), varTstar), Sigma12(rj, VarOf(sj), varTstar),
                 varTstar)
    ELSE SigmaCorr(Ti, Tj, VarOf(si), VarOf(sj))

\* lines 289-297: rho_T_Tstar of one scenario over the grid
RhoTTstar(scn, grid, Tstar, Avg_sig) ==
    [x \in 1..Len(grid) |-> rho_AvgSA_SA(scn, grid[x], Tstar, Avg_sig)]

\* lines 299-313: TgtMean[:, n] of one scenario
ScenarioMean(cond, scn, grid, rho, rup_eps) ==
    [x \in 1..Len(grid) |->
        MeanEntry(cond, GmpeMean(scn, grid[x]), IF cond = 1 THEN rho[x] ELSE 0,
                  rup_eps, GmpeSigma(scn, grid[x]))]

\* lines 315-336: TgtCov[n, :, :] of one scenario
ScenarioCov(cond, scn, grid, rho, varTstar) ==
    [x \in 1..Len(grid) |->
        [y \in 1..Len(grid) |->
            CovEntry(cond, grid[x], grid[y],
                     GmpeSigma(scn, grid[x]), GmpeSigma(scn, grid[y]),
                     IF cond = 1 THEN rho[x] ELSE 0, IF cond = 1 THEN rho[y] ELSE 0,
                     varTstar)]]

\* lines 248 and 251: np.zeros
Zeros(n) == [x \in 1..n |-> 0]

ZeroMatrix(n) == [x \in 1..n |-> Zeros(n)]

\* lines 221-224: self.Hcont, with no use of the weights given made before this
HcontOf(Hcont, nScenarios) ==
    IF Hcont = None THEN [x \in 1..nScenarios |-> HUnit \div nScenarios] ELSE Hcont

\* lines 339-340 kept out: the covariance is used whatever useVar says
UseVarIgnored(useVar, cov) == cov

\* lines 339-340: TgtCov is overwritten with zeros when useVar = 0
UseVar(useVar, cov) ==
    IF useVar = 0 THEN [n \in 1..Len(cov) |-> ZeroMatrix(Len(cov[n]))] ELSE cov

\* line 342: TgtMean_fin = np.sum(TgtMean * Hcont_mat, 1)
MeanFin(mean, Hcont, nT) ==
    [x \in 1..nT |->
        RoundDiv(SumTo([n \in 1..Len(mean) |-> mean[n][x] * Hcont[n]], Len(mean)), HUnit)]

\* lines 346-351: cov_diag[ii]
CovDiag(cov, mean, mean_fin, Hcont, x) ==
    RoundDiv(SumTo([n \in 1..Len(cov) |->
                      (cov[n][x][x] + CovScale * Sq(mean[n][x] - mean_fin[x])) * Hcont[n]],
                   Len(cov)),
             HUnit)

\* lines 344-352: TgtCov_fin, the matrix of the first scenario with cov_diag on its diagonal
CovFin(cov, mean, mean_fin, Hcont) ==
    [x \in 1..Len(cov[1]) |->
        [y \in 1..Len(cov[1]) |->
            IF x = y THEN CovDiag(cov, mean, mean_fin, Hcont, x) ELSE cov[1][x][y]]]

\* line 356 with the magnitude left out: every entry below the floor is raised
ClampSigned(v) == IF v < CovFloor THEN CovFloor ELSE v

\* line 356: TgtCov_fin[np.abs(TgtCov_fin) < 1e-10] = 1e-10
Clamp(v) == IF Abs(v) < CovFloor THEN CovFloor ELSE v

Floored(m) == [x \in 1..Len(m) |-> [y \in 1..Len(m) |-> Clamp(m[x][y])]]

\* lines 358-359: TgtSigma_fin; the root of a negative entry is nan, replaced by 0
SigmaFin(m) ==
    [x \in 1..Len(m) |-> IF m[x][x] < 0 THEN 0 ELSE ISqrt(m[x][x] \div CovScale)]

\* line 375: np.where(self.T == self.Tstar[k])[0][0], 0 where the search finds nothing
IndexOn(grid, t) == FirstIndex({x \in 1..Len(grid) : grid[x] = t})

\* line 376: ln of self.im_Tstar, the mean of mu_ln over the indices ind
LevelOf(mu_ln, ind, given) ==
    RoundDiv(SumTo([x \in 1..Len(ind) |-> mu_ln[ind[x]]], Len(ind)), Len(ind))

\* the lists a call may pass as rup_param['mag'] and dist_param['rjb']
ScenarioLists == UNION {[1..n -> Scenarios] : n \in 1..MaxScen}

\* the Hcont a call may pass: None, weights that sum to one, weights that do not
Hconts(n) == {None,
              [x \in 1..n |-> IF x = 1 THEN HUnit - 12 * (n - 1) ELSE 12],
              [x \in 1..n |-> 36]}

\* the epsilon a call may pass: None, or one value per scenario, in thousandths
Epsilons(n) == {None, [x \in 1..n |-> 1500 - 500 * x]}

\* the conditioning periods the constructor may be given
Tstars == {<<2000>>, <<500>>, <<1000, 5000>>}

\* T_Tgt_range
Ranges == {<<100, 40000>>, <<2000, 10000>>}

\* ln(im_Tstar), in tenths
Levels == {-7, 3}

\* the arguments of the constructor and of create()
CreateCalls ==
    {[Tstar |-> ts, scn |-> sl, Hcont |-> h, T_Tgt_range |-> r, im_Tstar |-> im,
      epsilon |-> e, cond |-> c, useVar |-> u] :
        ts \in Tstars, sl \in ScenarioLists, r \in Ranges, im \in Levels,
        c \in {0, 1}, u \in {0, 1},
        h \in UNION {Hconts(n) : n \in 1..MaxScen},
        e \in UNION {Epsilons(n) : n \in 1..MaxScen}}

\* the lists of a call are as long as the list of scenarios
WellFormed(a) ==
    /\ a.Hcont \in Hconts(Len(a.scn))
    /\ a.epsilon \in Epsilons(Len(a.scn))

\* lines 75-78: the constructor has stored Tstar; create() is about to run
CrInit ==
    /\ crArgs \in {a \in CreateCalls : WellFormed(a)}
    /\ self = [Tstar |-> crArgs.Tstar]
    /\ T_Tgt = <<>> /\ TgtMean = <<>> /\ TgtCov = <<>>
    /\ TgtMean_fin = <<>> /\ TgtCov_fin = <<>> /\ crN = 0
    /\ cpc = "settings"
    /\ SelIdle /\ SimIdle /\ BJIdle

\* del self.Tstar
DelAttr(obj, name) == [f \in DOMAIN obj \ {name} |-> obj[f]]

\* assignment of attributes: the fields of new replace or extend those of obj
SetAttrs(obj, new) == new @@ obj

\* lines 233-242: the conditioning periods after the settings
TstarAfter(obj, cond, grid) ==
    IF cond = 0 THEN DelAttr(obj, "Tstar")
    ELSE IF Len(obj.Tstar) # 1
         THEN SetAttrs(obj, [Tstar |-> AvgSaPeriods(grid, obj.Tstar)])
         ELSE obj

\* lines 216-224: the settings stored on the instance
WithSettings(obj, a) ==
    SetAttrs(obj, [cond |-> a.cond, useVar |-> a.useVar,
                   Hcont |-> HcontOf(a.Hcont, Len(a.scn))])

\* lines 216-251; del self.Tstar and len(self.Tstar) raise AttributeError on an
\* instance whose Tstar an earlier create() has deleted
CrSettings ==
    /\ cpc = "settings"
    /\ T_Tgt' = TargetGrid(crArgs.T_Tgt_range)
    /\ IF "Tstar" \in DOMAIN self
       THEN /\ self' = TstarAfter(WithSettings(self, crArgs), crArgs.cond, T_Tgt')
            /\ TgtMean' = [x \in 1..Len(crArgs.scn) |-> Zeros(Len(T_Tgt'))]
            /\ TgtCov' = [x \in 1..Len(crArgs.scn) |-> ZeroMatrix(Len(T_Tgt'))]
            /\ crN' = 1
            /\ cpc' = "scenario"
       ELSE /\ self' = WithSettings(self, crArgs)
            /\ cpc' = "AttributeError"
            /\ UNCHANGED <<TgtMean, TgtCov, crN>>
    /\ UNCHANGED <<crArgs, TgtMean_fin, TgtCov_fin, selVars, simVars, bjVars>>

\* line 301: Sa_avg at the conditioning periods, where there is a conditioning
AvgOf(scn) == IF self.cond = 1 THEN Sa_avg(scn, self.Tstar) ELSE [Sa |-> 0, sigma |-> AvgUnit]

\* lines 303-307: rup_eps
RupEps(avg) ==
    IF self.cond # 1 THEN 0
    ELSE IF crArgs.epsilon = None THEN BackEpsilon(crArgs.im_Tstar, avg)
         ELSE crArgs.epsilon[crN]

\* lines 289-336, with the values each of them needs handed down
ScenarioStep(scn, avg, rho) ==
    /\ TgtMean' = [TgtMean EXCEPT ![crN] = ScenarioMean(self.cond, scn, T_Tgt, rho, RupEps(avg))]
    /\ TgtCov' = [TgtCov EXCEPT ![crN] = ScenarioCov(self.cond, scn, T_Tgt, rho, VarTstarOf(avg.sigma))]

\* lines 253-336: one turn of the loop over the scenarios
CrScenario ==
    /\ cpc = "scenario"
    /\ LET avg == AvgOf(crArgs.scn[crN])
       IN  ScenarioStep(crArgs.scn[crN], avg,
                        IF self.cond = 1
                        THEN RhoTTstar(crArgs.scn[crN], T_Tgt, self.Tstar, avg.sigma)
                        ELSE Zeros(Len(T_Tgt)))
    /\ crN' = crN + 1
    /\ cpc' = IF crN < Len(crArgs.scn) THEN "scenario" ELSE "combine"
    /\ UNCHANGED <<self, crArgs, T_Tgt, TgtMean_fin, TgtCov_fin, selVars, simVars, bjVars>>

\* lines 338-352
CrCombine ==
    /\ cpc = "combine"
    /\ TgtCov' = UseVar(self.useVar, TgtCov)
    /\ TgtMean_fin' = MeanFin(TgtMean, self.Hcont, Len(T_Tgt))
    /\ TgtCov_fin' = CovFin(TgtCov', TgtMean, TgtMean_fin', self.Hcont)
    /\ cpc' = "floor"
    /\ UNCHANGED <<self, crArgs, T_Tgt, TgtMean, crN, selVars, simVars, bjVars>>

\* lines 354-365
CrFloor ==
    /\ cpc = "floor"
    /\ TgtCov_fin' = Floored(TgtCov_fin)
    /\ self' = SetAttrs(self, [mu_ln |-> TgtMean_fin, sigma_ln |-> SigmaFin(TgtCov_fin'),
                               T |-> T_Tgt, cov |-> TgtCov_fin'])
    /\ cpc' = "level"
    /\ UNCHANGED <<crArgs, T_Tgt, TgtMean, TgtCov, TgtMean_fin, crN, selVars, simVars, bjVars>>

\* lines 373-375: ind
LevelIndices == [x \in 1..Len(self.Tstar) |-> IndexOn(self.T, self.Tstar[x])]

\* lines 367-379; np.where(...)[0][0] raises IndexError for a T* that is not on the grid
CrLevel ==
    /\ cpc = "level"
    /\ IF self.cond # 1 THEN /\ cpc' = "done"
                             /\ self' = self
       ELSE IF crArgs.epsilon = None
            THEN /\ self' = SetAttrs(self, [im_Tstar |-> crArgs.im_Tstar])
                 /\ cpc' = "done"
            ELSE IF \E x \in 1..Len(self.Tstar) : LevelIndices[x] = 0
                 THEN /\ cpc' = "IndexError"
                      /\ self' = self
                 ELSE /\ self' = SetAttrs(self, [im_Tstar |-> LevelOf(self.mu_ln, LevelIndices, crArgs.im_Tstar),
                                                 epsilon |-> crArgs.epsilon])
                      /\ cpc' = "done"
    /\ UNCHANGED <<crArgs, T_Tgt, TgtMean, TgtCov, TgtMean_fin, TgtCov_fin, crN, selVars, simVars, bjVars>>

CrNext == CrSettings \/ CrScenario \/ CrCombine \/ CrFloor \/ CrLevel

SpecCreate == CrInit /\ [][CrNext]_vars

----------------------------------------------------------------------------
(* The period array: the constructor, then the slice create() takes of it *)

\* the period arrays of the database files, in units of 10^-4 s
RawPeriods == {<<100, 200, 500, 1000, 2000>>, <<100, 500, 1000, 3000>>}

\* T_resample: the flag and the step
Resamplings == {<<0, 500>>, <<1, 500>>, <<1, 300>>, <<1, 200>>, <<1, 100>>}

\* Tstar of the constructor
GridTstars == {<<500>>, <<700>>, <<150>>, <<50000>>, <<500, 1000>>}

\* T_Tgt_range of create()
GridRanges == {<<100, 40000>>, <<500, 1000>>}

\* np.arange(start, stop, step) for step > 0
Arange(start, stop, step) ==
    [x \in 1..(IF stop > start THEN (stop - start + step - 1) \div step ELSE 0) |->
        start + (x - 1) * step]

\* lines 88 and 105: the resampled period array: 0.01 s and 0.02 s, the
\* multiples of the step below the last period, the last period
Resampled(per, step) == <<100, 200>> \o Arange(step, per[Len(per)], step) \o <<per[Len(per)]>>

RECURSIVE SortInto(_, _)
\* Periods[np.argsort(Periods)]: the entries of s put in order into the ordered t
SortInto(s, t) ==
    IF s = <<>> THEN t
    ELSE SortInto(Tail(s),
                  InsertAt(t, 1 + Cardinality({x \in 1..Len(t) : t[x] <= Head(s)}), Head(s)))

\* lines 113 and 127: the period array with T* added
WithTstar(per, ts) == SortInto(Append(per, ts), <<>>)

\* the interpolation of lines 110-111 raises ValueError outside the periods known
Interpolable(per, ts) ==
    /\ \E x \in 1..Len(per) : per[x] <= ts
    /\ \E x \in 1..Len(per) : per[x] >= ts

GrInit ==
    /\ crArgs \in [Tstar : GridTstars, T_resample : Resamplings, Periods : RawPeriods,
                    T_Tgt_range : GridRanges]
    /\ self = [Tstar |-> crArgs.Tstar, database |-> [Periods |-> crArgs.Periods]]
    /\ T_Tgt = <<>> /\ TgtMean = <<>> /\ TgtCov = <<>>
    /\ TgtMean_fin = <<>> /\ TgtCov_fin = <<>> /\ crN = 0
    /\ cpc = "resample"
    /\ SelIdle /\ SimIdle /\ BJIdle

\* lines 85-105
GrResample ==
    /\ cpc = "resample"
    /\ self' = IF crArgs.T_resample[1] # 0
               THEN [self EXCEPT !.database.Periods = Resampled(@, crArgs.T_resample[2])]
               ELSE self
    /\ cpc' = "insert"
    /\ UNCHANGED <<crArgs, T_Tgt, TgtMean, TgtCov, TgtMean_fin, TgtCov_fin, crN,
                   selVars, simVars, bjVars>>

\* lines 107-127
GrInsert ==
    /\ cpc = "insert"
    /\ IF Len(self.Tstar) = 1 /\ ~Contains(self.database.Periods, self.Tstar[1])
       THEN IF Interpolable(self.database.Periods, self.Tstar[1])
            THEN /\ self' = [self EXCEPT !.database.Periods = WithTstar(@, self.Tstar[1])]
                 /\ cpc' = "built"
            ELSE /\ self' = self
                 /\ cpc' = "ValueError"
       ELSE /\ self' = self
            /\ cpc' = "built"
    /\ UNCHANGED <<crArgs, T_Tgt, TgtMean, TgtCov, TgtMean_fin, TgtCov_fin, crN,
                   selVars, simVars, bjVars>>

\* lines 226-231 and 364: create() takes the target grid from the period array
GrSlice ==
    /\ cpc = "built"
    /\ T_Tgt' = TargetGridOf(self.database.Periods, crArgs.T_Tgt_range)
    /\ self' = SetAttrs(self, [T |-> T_Tgt'])
    /\ cpc' = "done"
    /\ UNCHANGED <<crArgs, TgtMean, TgtCov, TgtMean_fin, TgtCov_fin, crN,
                   selVars, simVars, bjVars>>

GrNext == GrResample \/ GrInsert \/ GrSlice

SpecGrid == GrInit /\ [][GrNext]_vars

----------------------------------------------------------------------------
(* search_database(): the pool of spectra select() draws from *)

\* the number of rotation angles between 0 and 180 degrees
num_theta == 100

\* RotScale times the cosine of theta[j], theta = np.linspace(0, np.pi, num_theta)
RotScale == 1000

CosTheta ==
    <<1000, 999, 998, 995, 992, 987, 982, 975, 968, 959, 950, 940, 928, 916, 903, 889, 874,
    858, 841, 824, 805, 786, 766, 745, 724, 701, 679, 655, 631, 606, 580, 554, 527, 500,
    472, 444, 415, 386, 357, 327, 297, 266, 236, 205, 174, 142, 111, 79, 48, 16, -16, -48,
    -79, -111, -142, -174, -205, -236, -266, -297, -327, -357, -386, -415, -444, -472, -500,
    -527, -554, -580, -606, -631, -655, -679, -701, -724, -745, -766, -786, -805, -824,
    -841, -858, -874, -889, -903, -916, -928, -940, -950, -959, -968, -975, -982, -987,
    -992, -995, -998, -999, -1000>>

SinTheta ==
    <<0, 32, 63, 95, 127, 158, 189, 220, 251, 282, 312, 342, 372, 401, 430, 458, 486, 514,
    541, 567, 593, 618, 643, 667, 690, 713, 735, 756, 776, 796, 815, 833, 850, 866, 881,
    896, 910, 922, 934, 945, 955, 964, 972, 979, 985, 990, 994, 997, 999, 1000, 1000, 999,
    997, 994, 990, 985, 979, 972, 964, 955, 945, 934, 922, 910, 896, 881, 866, 850, 833,
    815, 796, 776, 756, 735, 713, 690, 667, 643, 618, 593, 567, 541, 514, 486, 458, 430,
    401, 372, 342, 312, 282, 251, 220, 189, 158, 127, 95, 63, 32, 0>>

\* the n-th smallest of the values of v
OrderStat(v, n) ==
    LET y == CHOOSE x \in 1..Len(v) :
                 /\ Cardinality({z \in 1..Len(v) : v[z] < v[x]}) < n
                 /\ Cardinality({z \in 1..Len(v) : v[z] <= v[x]}) >= n
    IN  v[y]

\* np.percentile(v, xx): linear interpolation between the order statistics
Percentile(v, xx) ==
    LET pos  == xx * (Len(v) - 1)
        lo   == pos \div 100
        frac == pos % 100
    IN  IF frac = 0 THEN OrderStat(v, lo + 1)
        ELSE OrderStat(v, lo + 1)
                + RoundDiv(frac * (OrderStat(v, lo + 2) - OrderStat(v, lo + 1)), 100)

\* lines 1569-1580: the xx-th percentile, over the rotation angles, of the two
\* components combined, for every record and period
get_RotDxx(Sa_1, Sa_2, xx) ==
    [r \in 1..Len(Sa_1) |->
        [p \in 1..Len(Sa_1[r]) |->
            RoundDiv(Percentile([j \in 1..num_theta |->
                                    Sa_1[r][p] * CosTheta[j] + Sa_2[r][p] * SinTheta[j]], xx),
                     RotScale)]]

\* line 483: np.sqrt(Sa_1 * Sa_2)
GeoMeanOf(Sa_1, Sa_2) ==
    [r \in 1..Len(Sa_1) |-> [p \in 1..Len(Sa_1[r]) |-> ISqrt(Sa_1[r][p] * Sa_2[r][p])]]

\* line 487: int(self.Sa_def[4:])
XxOf(Sa_def) ==
    CASE Sa_def = "RotD00" -> 0
      [] Sa_def = "RotD50" -> 50
      [] Sa_def = "RotD100" -> 100

\* lines 481-488 as the documentation of Sa_def describes them: the third
\* branch taken for every 'RotDxx' but 'RotD50'
SaKnownByDef(obj) ==
    IF obj.Sa_def = "GeoMean" THEN GeoMeanOf(obj.database.Sa_1, obj.database.Sa_2)
    ELSE IF obj.Sa_def = "RotD50" THEN obj.database.Sa_RotD50
    ELSE get_RotDxx(obj.database.Sa_1, obj.database.Sa_2, XxOf(obj.Sa_def))

\* lines 458-488: SaKnown. The condition of line 484 is the string 'RotD50',
\* which is true whatever self.Sa_def is, so the branch of line 486 is never taken
SaKnownOf(obj) ==
    IF obj.selection = 1 THEN obj.database.Sa_1 \o obj.database.Sa_2
    ELSE IF obj.Sa_def = "GeoMean" THEN GeoMeanOf(obj.database.Sa_1, obj.database.Sa_2)
    ELSE IF TRUE THEN obj.database.Sa_RotD50
    ELSE get_RotDxx(obj.database.Sa_1, obj.database.Sa_2, XxOf(obj.Sa_def))

\* lines 461 and 491: the magnitudes of the rows of SaKnown
MwOf(obj) ==
    IF obj.selection = 1 THEN obj.database.magnitude \o obj.database.magnitude
    ELSE obj.database.magnitude

\* lines 499-543: the rows that stay, in order: all spectral values positive
\* and the magnitude strictly inside Mw_lim (no other limit is set)
Allowed(SaKnown, Mw, Mw_lim) ==
    SelectSeq([r \in 1..Len(SaKnown) |-> r],
              LAMBDA r : /\ \A p \in 1..Len(SaKnown[r]) : SaKnown[r][p] > 0
                         /\ \/ Mw_lim = None
                            \/ /\ Mw[r] > SeqMin(Mw_lim)
                               /\ Mw[r] < SeqMax(Mw_lim))

\* line 546: SaKnown[Allowed,:]
Rows(SaKnown, rows) == [r \in 1..Len(rows) |-> SaKnown[rows[r]]]

\* lines 565-570: SaKnown[:,recPer], recPer the places of the periods of T
AtPeriods(SaKnown, perKnown, grid) ==
    [r \in 1..Len(SaKnown) |-> [p \in 1..Len(grid) |-> SaKnown[r][IndexOn(perKnown, grid[p])]]]

\* the records of the database: the spectra of the two components and RotD50
\* (in 10^-3 g, at the periods 0.05 s and 0.1 s) and the magnitude
DbRecords ==
    { [Sa_1 |-> <<300, 200>>, Sa_2 |-> <<400, 100>>, Sa_RotD50 |-> <<360, 160>>, magnitude |-> 6],
      [Sa_1 |-> <<120, 80>>, Sa_2 |-> <<90, 0>>, Sa_RotD50 |-> <<100, 60>>, magnitude |-> 7],
      [Sa_1 |-> <<50, 50>>, Sa_2 |-> <<50, 50>>, Sa_RotD50 |-> <<55, 55>>, magnitude |-> 5] }

\* the number of records of the database
DbSize == 2

\* the instances search_database() is called on
SearchInstances ==
    { [selection |-> sel, Sa_def |-> def, Mw_lim |-> lim, T |-> grid,
       Vs30_lim |-> None, Rjb_lim |-> None, fault_lim |-> None,
       database |-> [Name |-> "NGA_W1", Periods |-> <<500, 1000>>,
                     Sa_1 |-> [r \in 1..DbSize |-> db[r].Sa_1],
                     Sa_2 |-> [r \in 1..DbSize |-> db[r].Sa_2],
                     Sa_RotD50 |-> [r \in 1..DbSize |-> db[r].Sa_RotD50],
                     magnitude |-> [r \in 1..DbSize |-> db[r].magnitude]]] :
        sel \in {1, 2}, def \in {"GeoMean", "RotD50", "RotD00", "RotD100"},
        lim \in {None, <<5, 8>>}, grid \in {<<500, 1000>>, <<1000>>},
        db \in [1..DbSize -> DbRecords] }

SrInit ==
    /\ self \in SearchInstances
    /\ sampleBig = <<>>
    /\ ind1 = <<>> /\ ind2 = <<>> /\ recID = <<>> /\ finalScaleFac = <<>>
    /\ sampleSmall = <<>> /\ minID = Unbound /\ k = 0 /\ i = 0
    /\ medianErr = Unbound /\ stdErr = Unbound /\ out = <<>>
    /\ pc = "SaKnown"
    /\ SimIdle /\ BJIdle /\ CrIdle

\* lines 456-493: the values of the pool, held in sampleBig from here on
SrSaKnown ==
    /\ pc = "SaKnown"
    /\ sampleBig' = SaKnownOf(self)
    /\ pc' = "notAllowed"
    /\ UNCHANGED <<self, ind1, ind2, recID, finalScaleFac, sampleSmall, minID, k, i,
                   medianErr, stdErr, out, simVars, tgtVars>>

\* lines 495-561
SrAllowed ==
    /\ pc = "notAllowed"
    /\ sampleBig' = Rows(sampleBig, Allowed(sampleBig, MwOf(self), self.Mw_lim))
    /\ pc' = "recPer"
    /\ UNCHANGED <<self, ind1, ind2, recID, finalScaleFac, sampleSmall, minID, k, i,
                   medianErr, stdErr, out, simVars, tgtVars>>

\* lines 563-576
SrReturn ==
    /\ pc = "recPer"
    /\ sampleBig' = AtPeriods(sampleBig, self.database.Periods, self.T)
    /\ pc' = "searched"
    /\ UNCHANGED <<self, ind1, ind2, recID, finalScaleFac, sampleSmall, minID, k, i,
                   medianErr, stdErr, out, simVars, tgtVars>>

SrNext == SrSaKnown \/ SrAllowed \/ SrReturn

SpecSearch == SrInit /\ [][SrNext]_vars

----------------------------------------------------------------------------
(* Several calls of create() on one instance *)

\* the calls made on the instance: one scenario, the default weights, the
\* whole period range
ModeCalls ==
    {a \in CreateCalls :
        /\ WellFormed(a)
        /\ a.scn = <<"Mw7.2 Rjb20">> /\ a.Hcont = None /\ a.useVar = 1
        /\ a.T_Tgt_range = <<100, 40000>> /\ a.im_Tstar = 3}

ModeInit ==
    /\ crArgs \in ModeCalls
    /\ self = [Tstar |-> crArgs.Tstar]
    /\ T_Tgt = <<>> /\ TgtMean = <<>> /\ TgtCov = <<>>
    /\ TgtMean_fin = <<>> /\ TgtCov_fin = <<>> /\ crN = 0
    /\ cpc = "settings"
    /\ SelIdle /\ SimIdle /\ BJIdle

\* a call of create() has returned or raised
CrEnded == cpc \in {"done", "IndexError", "AttributeError"}

\* the caller calls create() again on the same instance, with arguments of its
\* choice; the locals of the earlier call are gone
CrAgain ==
    /\ CrEnded
    /\ crArgs' \in {a \in ModeCalls : a.Tstar = crArgs.Tstar}
    /\ T_Tgt' = <<>> /\ TgtMean' = <<>> /\ TgtCov' = <<>>
    /\ TgtMean_fin' = <<>> /\ TgtCov_fin' = <<>> /\ crN' = 0
    /\ cpc' = "settings"
    /\ UNCHANGED <<self, selVars, simVars, bjVars>>

ModeNext == CrSettings \/ CrScenario \/ CrCombine \/ CrFloor \/ CrLevel \/ CrAgain

SpecMode == ModeInit /\ [][ModeNext]_vars

----------------------------------------------------------------------------
(* Properties of select() *)

\* Phase 1 has filled every position
Phase1Done == pc \in {"phase2", "check", "report", "done"}

Distinct(ids) == \A m, n \in 1..Len(ids) : m # n => ids[m] # ids[n]

\* the percent errors of a selection S over the columns idx are within tol
ErrorsBelowTol(S, idx) ==
    /\ MedianErrOver(S, idx) < self.tol
    /\ StdErrOver(S, idx) < self.tol

\* C1: once Phase 1 has completed, and so at the end of every Phase 2 pass, the
\* nGM selected candidate indices recID are pairwise distinct.
C1_DistinctSelection ==
    Phase1Done => Len(recID) = self.nGM /\ Distinct(recID)

\* a second pass has ended on a selection of several records drawn from a pool
\* that holds more records than are selected
C1_Witness ==
    /\ pc = "check" /\ k >= 1
    /\ self.nGM >= 2 /\ nBig > self.nGM
    /\ Distinct(recID)

\* C2: once Phase 1 has completed, and so at the end of every Phase 2 pass, no
\* selected scale factor exceeds maxScale, in conditional and unconditional mode.
C2_ScaleWithinCap ==
    Phase1Done => \A m \in 1..Len(finalScaleFac) : finalScaleFac[m] <= self.maxScale

\* a pass has ended although some candidate of the pool is over the cap for a slot
C2_Witness ==
    /\ pc = "check"
    /\ self.isScaled = 1
    /\ \E j \in 1..nBig, m \in 1..self.nGM : LnScaleFac(j, m) > self.maxScale
    /\ \A m \in 1..self.nGM : finalScaleFac[m] <= self.maxScale


\* the candidates whose scale factor is within the cap for some simulated row
Usable == {j \in 1..nBig : \E m \in 1..self.nGM : LnScaleFac(j, m) <= self.maxScale}

\* C3: a pool with fewer usable records than nGM ends select() in the fatal
\* infeasible-selection failure (the 'No good matches found' exit), and a run
\* that completes publishes exactly nGM entries.
C3_InfeasibleFails ==
    /\ pc \in {"exit", "error", "done"} /\ Cardinality(Usable) < self.nGM => pc = "exit"
    /\ pc = "done" =>
          /\ Len(self.rec_h1) = self.nGM
          /\ Len(self.rec_scale) = self.nGM
          /\ Len(self.rec_spec) = self.nGM

\* candidate j is admissible for the row i of Phase 1: not taken by an earlier
\* row, scale factor within the cap
Admissible(j) ==
    /\ \A m \in 1..(i - 1) : recID[m] # j
    /\ LnScaleFac(j, i) <= self.maxScale

\* C4: Phase 1 takes the rows in order and gives row i the admissible candidate
\* of least squared log-space residual; when no candidate has an error below
\* 10^6 the run ends fatally at that row and nothing is assigned.
C4_Phase1Greedy ==
    [][pc = "phase1" =>
          LET Res(j) == SqResidual(j, LnScaleFac(j, i), i)
              Good   == {j \in 1..nBig : Admissible(j) /\ Res(j) < 1000000 * SqUnit}
          IN  IF Good = {}
              THEN /\ pc' \in {"exit", "error"}
                   /\ finalScaleFac' = finalScaleFac /\ sampleSmall' = sampleSmall
              ELSE /\ recID'[i] \in Good
                   /\ \A j \in Good : Res(recID'[i]) <= Res(j)
                   /\ \A m \in 1..(i - 1) : recID'[m] = recID[m]
                   /\ sampleSmall'[i] = ScaledRow(recID'[i], finalScaleFac'[i])
                   /\ IF i < self.nGM THEN pc' = "phase1" /\ i' = i + 1
                      ELSE pc' \in {"phase2", "report"}]_vars

\* Phase 1 has just filled two rows, and the record of row 1 would have been
\* the closer match for row 2 as well
C4_Witness ==
    /\ pc = "phase2" /\ k = 0 /\ i = 1 /\ minID = Unbound
    /\ self.nGM = 2
    /\ recID[1] # recID[2]
    /\ SqResidual(recID[1], LnScaleFac(recID[1], 2), 2)
         < SqResidual(recID[2], LnScaleFac(recID[2], 2), 2)

\* devTotal of candidate j as a replacement in slot i of the current selection:
\* the weighted deviation of the resulting selection, plus 10^6 if j is over the
\* cap or holds another position
SlotDev(j) ==
    DevTotal(Append(Delete(sampleSmall, i), ScaledRow(j, LnScaleFac(j, i))))
    + (IF \/ LnScaleFac(j, i) > self.maxScale
          \/ \E m \in 1..Len(recID) : m # i /\ recID[m] = j
       THEN 1000000 * SqUnit ELSE 0)

\* C5: every Phase 2 slot step installs at slot i a candidate of minimum
\* devTotal over the whole pool, the 10^6 penalty included.
C5_SlotTakesMinimum ==
    [][pc = "phase2" /\ pc' \in {"phase2", "check"} =>
          /\ recID'[i] \in 1..nBig
          /\ \A j \in 1..nBig : SlotDev(recID'[i]) <= SlotDev(j)]_vars

\* slot 1 of a pass has been filled from a pool that also holds a free record
\* and a record over the cap
C5_Witness ==
    /\ pc = "phase2" /\ i = 2 /\ recID[1] = minID
    /\ \E j \in 1..nBig : LnScaleFac(j, 1) > self.maxScale
    /\ \E j \in 1..nBig : j # recID[1] /\ j # recID[2] /\ LnScaleFac(j, 1) <= self.maxScale

\* C6: with a single conditioning period, the convergence check takes the max
\* percent errors over every period of the grid except T*.
C6_AllButTstar ==
    pc \in {"report", "done"} /\ medianErr # Unbound /\ self.cond = 1 /\ Len(ind1) = 1 =>
        /\ medianErr = MedianErrOver(sampleSmall, Periods \ {ind1[1]})
        /\ stdErr = StdErrOver(sampleSmall, Periods \ {ind1[1]})

Printed(m) == \E n \in 1..Len(out) : out[n] = m

\* C8: a run whose passes are used up without meeting the tolerance does not
\* fail: it publishes the final selection, and prints the 'within the target'
\* message exactly when both max errors are below tol.
C8_ShortfallCompletes ==
    [][pc = "report" =>
          /\ pc' = "done"
          /\ self'.rec_scale = finalScaleFac
          /\ self'.rec_spec = sampleSmall
          /\ self'.rec_h1 = recID
          /\ Printed("The errors are within the target")' <=>
                 (medianErr < self.tol /\ stdErr < self.tol)]_vars

\* the percent errors of the selection a further Phase 2 pass would leave
RerunErrs ==
    LET r == Phase2Pass(sampleSmall, recID, minID, 1)
    IN  <<MedianErrOver(r[1], CheckedPeriods), StdErrOver(r[1], CheckedPeriods)>>

\* the run has ended with both max errors below tol
Converged == pc = "done" /\ medianErr < self.tol /\ stdErr < self.tol

\* C9 as stated: from a converged selection, one more full Phase 2 pass leaves
\* neither max error larger than before.
C9_RerunNoWorse ==
    Converged => RerunErrs[1] <= medianErr /\ RerunErrs[2] <= stdErr

\* C9 as amended: from a converged selection, one more full Phase 2 pass leaves
\* the weighted deviation devTotal of the selection no larger than before.
C9_RerunObjective ==
    Converged => DevTotal(Phase2Pass(sampleSmall, recID, minID, 1)[1]) <= DevTotal(sampleSmall)

\* a converged selection that one more pass changes, to a smaller devTotal and a
\* larger max error
C9_Witness ==
    /\ Converged
    /\ Phase2Pass(sampleSmall, recID, minID, 1)[2] # recID
    /\ DevTotal(Phase2Pass(sampleSmall, recID, minID, 1)[1]) < DevTotal(sampleSmall)
    /\ RerunErrs[1] > medianErr \/ RerunErrs[2] > stdErr

----------------------------------------------------------------------------
(* Properties of simulate_spectra() *)

\* C10: two calls of simulate_spectra on the same target, nGM, nTrials and
\* weights with the same nonzero seedValue retain identical sim_spec
C10_SameSeedSameSpectra ==
    \A a, b \in 1..Len(simRuns) :
        (simRuns[a].seedValue = simRuns[b].seedValue /\ simRuns[a].seedValue # 0)
            => simRuns[a].sim_spec = simRuns[b].sim_spec

\* two calls with the same nonzero seed have completed, each choosing among
\* several trial sets of more than one spectrum
C10_Witness ==
    /\ Len(simRuns) = 2
    /\ simRuns[1].seedValue = simRuns[2].seedValue
    /\ simRuns[1].seedValue # 0
    /\ self.nTrials > 1
    /\ self.nGM > 1
    /\ \E p \in Periods : simRuns[2].sim_spec[1][p] # simRuns[2].sim_spec[2][p]
\* C11: two calls of simulate_spectra that differ only in their nonzero
\* seedValue seed the generator differently and retain different sim_spec.
C11_SeedChangesSet ==
    \A a, b \in 1..Len(simRuns) :
        (/\ simRuns[a].seedValue # 0
         /\ simRuns[b].seedValue # 0
         /\ simRuns[a].seedValue # simRuns[b].seedValue)
            => simRuns[a].sim_spec # simRuns[b].sim_spec
\* C20 as stated: the retained sim_spec is one of the generated trial sets and
\* no generated set has a strictly smaller score, whatever the weights.
C20_RetainsMinScore ==
    spc = "done" =>
        \E r \in 1..Len(specDict) :
            /\ self.sim_spec = LogOf(specDict[r])
            /\ \A j \in 1..Len(specDict) :
                   SimScore(LogOf(specDict[j])) >= SimScore(LogOf(specDict[r]))

\* C20 as amended: the retained sim_spec is one of the generated trial sets and
\* no generated set has a score of strictly smaller absolute value; with
\* non-negative weights no generated set has a strictly smaller score.
C20_RetainsMinAbsScore ==
    spc = "done" =>
        \E r \in 1..Len(specDict) :
            /\ self.sim_spec = LogOf(specDict[r])
            /\ \A j \in 1..Len(specDict) :
                   /\ Abs(SimScore(LogOf(specDict[j]))) >= Abs(SimScore(LogOf(specDict[r])))
                   /\ (\A n \in 1..3 : self.weights[n] >= 0) =>
                          SimScore(LogOf(specDict[j])) >= SimScore(LogOf(specDict[r]))

\* a call has retained the second of several trial sets, of strictly smaller
\* score than the first, under weights that count the skewness
C20_Witness ==
    /\ spc = "done"
    /\ Len(specDict) > 1
    /\ self.nGM > 2
    /\ self.weights[3] > 0 /\ self.weights[1] > 0
    /\ self.sim_spec = LogOf(specDict[2])
    /\ devTotalSim[2] < devTotalSim[1]
    /\ \E p \in Periods : SkewAt(LogOf(specDict[1]), p) # 0
----------------------------------------------------------------------------
(* Properties of Baker_Jayaram_2008() *)

\* C19: the correlation is symmetric, Baker_Jayaram_2008(T1, T2) =
\* Baker_Jayaram_2008(T2, T1) for every pair of positive periods, and the
\* branch that gives it is the branch of the pair (min(T1, T2), max(T1, T2)).
C19_Symmetric ==
    bjOut # <<>> =>
        LET lo == IF bjArgs[1] <= bjArgs[2] THEN bjArgs[1] ELSE bjArgs[2]
            hi == IF bjArgs[1] <= bjArgs[2] THEN bjArgs[2] ELSE bjArgs[1]
        IN  /\ bjOut.rho = Baker_Jayaram_2008(bjArgs[2], bjArgs[1])
            /\ bjOut.rho = BJ_rho(lo, hi)
            /\ bjOut.branch = BJ_branch(lo, hi)

\* the correlation of a longer first period with a shorter second one,
\* strictly between 0 and 1, from the branch that takes the smaller of c2 and c4
C19_Witness ==
    /\ bjOut # <<>>
    /\ bjArgs[1] > bjArgs[2]
    /\ bjOut.branch = "min(c2, c4)"
    /\ bjOut.rho > 0 /\ bjOut.rho < RhoScale

----------------------------------------------------------------------------
(* Properties of create() *)

\* create() has returned
Created == cpc = "done"

\* the grid indices of the target
Grid == 1..Len(self.T)

\* the hazard-weighted mean square deviation of the scenario means from the
\* combined mean at grid point x
MixtureVar(x) ==
    RoundDiv(SumTo([m \in 1..Len(TgtMean) |->
                      CovScale * Sq(TgtMean[m][x] - self.mu_ln[x]) * self.Hcont[m]],
                   Len(TgtMean)),
             HUnit)

\* C12 (as stated): with useVar = 0 every entry of cov and of sigma_ln is zero
C12_AllZero ==
    (Created /\ self.useVar = 0) =>
        /\ \A x \in Grid : \A y \in Grid : self.cov[x][y] = 0
        /\ \A x \in Grid : self.sigma_ln[x] = 0

\* C12 (amended): with useVar = 0 every off-diagonal entry of cov is the floor,
\* every diagonal entry is the weighted mean square deviation of the scenario
\* means from the combined mean, raised to the floor where it is smaller, and
\* sigma_ln is the root of the diagonal
C12_FloorAndMixture ==
    (Created /\ self.useVar = 0) =>
        /\ \A x \in Grid : \A y \in Grid \ {x} : self.cov[x][y] = CovFloor
        /\ \A x \in Grid : self.cov[x][x] = IF MixtureVar(x) < CovFloor THEN CovFloor
                                              ELSE MixtureVar(x)
        /\ \A x \in Grid : /\ CovScale * Sq(self.sigma_ln[x]) <= self.cov[x][x]
                           /\ self.cov[x][x] < CovScale * Sq(self.sigma_ln[x] + 1)

\* two scenarios with different means, useVar = 0: a sigma_ln well above zero
C12_Witness ==
    /\ Created /\ self.useVar = 0 /\ self.cond = 1 /\ Len(crArgs.scn) = 2
    /\ \E x \in Grid : self.sigma_ln[x] >= 2
    /\ \E x \in Grid : self.cov[x][x] = CovFloor

\* C13: every diagonal entry of cov is non-negative and is the square of
\* sigma_ln, to the resolution sigma_ln is held at
C13_DiagonalIsVariance ==
    Created =>
        \A x \in Grid : /\ self.cov[x][x] >= 0
                        /\ CovScale * Sq(self.sigma_ln[x]) <= self.cov[x][x]
                        /\ self.cov[x][x] < CovScale * Sq(self.sigma_ln[x] + 1)

\* a conditional target of two scenarios with variance: the floor at the
\* conditioning period, a sigma_ln above zero elsewhere
C13_Witness ==
    /\ Created /\ self.cond = 1 /\ self.useVar = 1 /\ Len(crArgs.scn) = 2
    /\ Len(self.Tstar) = 1
    /\ \E x \in Grid : self.T[x] = self.Tstar[1] /\ self.cov[x][x] <= CovScale
    /\ \E x \in Grid : self.sigma_ln[x] >= 3

\* C14: the final covariance matrix is symmetric
C14_Symmetric ==
    Created => \A x \in Grid : \A y \in Grid : self.cov[x][y] = self.cov[y][x]

\* a conditional target with variance whose covariance has negative entries
\* off the diagonal and distinct rows
C14_Witness ==
    /\ Created /\ self.cond = 1 /\ self.useVar = 1 /\ Len(self.T) = 5
    /\ \E x \in Grid : \E y \in Grid \ {x} : self.cov[x][y] < 0
    /\ \E x \in Grid : \E y \in Grid \ {x} : self.cov[x][y] > CovFloor
    /\ self.cov[1] # self.cov[2]

\* C15: the final covariance has no entry of magnitude below the floor; the
\* clamp sets every entry of magnitude below the floor to the floor and leaves
\* every other entry as it was
C15_FloorClamp ==
    /\ [](Created => \A x \in Grid : \A y \in Grid : Abs(self.cov[x][y]) >= CovFloor)
    /\ [][cpc = "floor" =>
            /\ self'.cov = TgtCov_fin'
            /\ \A x \in 1..Len(TgtCov_fin) : \A y \in 1..Len(TgtCov_fin) :
                  TgtCov_fin'[x][y] = IF Abs(TgtCov_fin[x][y]) < CovFloor THEN CovFloor
                                      ELSE TgtCov_fin[x][y]]_vars

\* a final covariance with an entry that was zero and is now the floor, next
\* to a negative entry and a positive one
C15_Witness ==
    /\ Created /\ self.cond = 1 /\ self.useVar = 1
    /\ \E x \in Grid : TgtCov[1][x][x] = 0 /\ self.cov[x][x] = CovFloor
    /\ \E x \in Grid : \E y \in Grid : self.cov[x][y] < 0 - CovFloor
    /\ \E x \in Grid : \E y \in Grid : self.cov[x][y] > CovFloor

\* C16: a target model is built only with weights that sum to one
C16_WeightsSumToOne ==
    ("mu_ln" \in DOMAIN self /\ cpc # "off") =>
        SumTo(self.Hcont, Len(self.Hcont)) = HUnit

\* C17: create() returns a conditional target only with every conditioning
\* period on the grid
C17_TstarOnGrid ==
    (Created /\ self.cond = 1) =>
        \A x \in 1..Len(self.Tstar) : IndexOn(self.T, self.Tstar[x]) # 0

\* C18: with epsilon back-calculated, the mean of mu_ln over the conditioning
\* indices is ln(im_Tstar)
C18_RoundTrip ==
    (Created /\ self.cond = 1 /\ crArgs.epsilon = None) =>
        /\ \A x \in 1..Len(self.Tstar) : LevelIndices[x] # 0
        /\ Abs(LevelOf(self.mu_ln, LevelIndices, crArgs.im_Tstar) - crArgs.im_Tstar) <= 1

----------------------------------------------------------------------------
(* Further properties of select() *)

\* C24: select() leaves the candidate log spectra and the target fields T,
\* mu_ln, sigma_ln and cov as they were, in every step of every run.
C24_ReadOnlyInputs ==
    [][/\ sampleBig' = sampleBig
       /\ self'.T = self.T
       /\ self'.mu_ln = self.mu_ln
       /\ self'.sigma_ln = self.sigma_ln
       /\ self'.cov = self.cov]_vars

\* a run has published a selection of scaled spectra whose mean is off the
\* target mean
C24_Witness ==
    /\ pc = "done" /\ self.isScaled = 1 /\ Len(self.rec_spec) = self.nGM
    /\ self.rec_spec[1] # sampleBig[self.rec_h1[1]]
    /\ \E p \in Periods : MeanAt(self.rec_spec, p) # self.mu_ln[p]

\* C25 (as stated): with an empty pool select() ends in the 'No good matches
\* found' exit of Phase 1 and in no other failure.
C25_EmptyPoolFatal ==
    (nBig = 0 /\ pc \in {"exit", "error", "done"}) => pc = "exit"

\* C26: with isScaled = 0, after Phase 1 and after every Phase 2 slot step every
\* selected scale factor is 1 (its ln is 0) and every selected row is the
\* unscaled log spectrum of its candidate.
C26_UnscaledSelection ==
    (Phase1Done /\ self.isScaled = 0) =>
        \A m \in 1..self.nGM :
            /\ finalScaleFac[m] = 0
            /\ sampleSmall[m] = sampleBig[recID[m]]

\* a second pass has ended without scaling, on records that scaling would have moved
C26_Witness ==
    /\ pc = "check" /\ k >= 1 /\ self.isScaled = 0 /\ self.nGM = 2
    /\ \E m \in 1..self.nGM : LnScaleFacAlways(recID[m], m) # 0

\* C27: a Phase 2 slot step for slot i leaves the candidate index, the scale
\* factor and the scaled spectrum of every other position, and their order, as
\* they were.
C27_SlotStepFrame ==
    [][pc = "phase2" /\ pc' \in {"phase2", "check"} =>
          /\ Len(recID') = self.nGM /\ Len(sampleSmall') = self.nGM
          /\ Len(finalScaleFac') = self.nGM
          /\ \A m \in (1..self.nGM) \ {i} :
                /\ recID'[m] = recID[m]
                /\ finalScaleFac'[m] = finalScaleFac[m]
                /\ sampleSmall'[m] = sampleSmall[m]]_vars

\* the first slot of a second pass has taken a record, next to a different
\* record in the second position
C27_Witness ==
    /\ pc = "phase2" /\ k = 1 /\ i = 2 /\ self.nGM = 2
    /\ recID[1] = minID /\ recID[2] # recID[1]
    /\ sampleSmall[1] # sampleSmall[2]

\* C28: after Phase 1 and after every Phase 2 slot step, row m of the selected
\* spectra is the pool log spectrum of candidate recID[m] plus the ln of
\* finalScaleFac[m]; the published rec_spec, rec_scale and records agree likewise.
C28_PositionwiseConsistent ==
    /\ Phase1Done =>
          \A m \in 1..self.nGM :
              sampleSmall[m] = [p \in Periods |-> sampleBig[recID[m]][p] + finalScaleFac[m]]
    /\ pc = "done" =>
          \A m \in 1..self.nGM :
              self.rec_spec[m] =
                  [p \in Periods |-> sampleBig[self.rec_h1[m]][p] + self.rec_scale[m]]

\* a published selection of two records with different, non-trivial scale factors
C28_Witness ==
    /\ pc = "done" /\ self.nGM = 2 /\ k >= 1
    /\ self.rec_scale[1] # self.rec_scale[2]
    /\ self.rec_scale[1] # 0 /\ self.rec_scale[2] # 0
    /\ self.rec_h1[1] # self.rec_h1[2]

\* C29: a Phase 2 slot step leaves the devTotal of the full selection (the
\* 3-sigma penalty included) no larger than it was before the step.
C29_NeverWorsens ==
    [][pc = "phase2" /\ pc' \in {"phase2", "check"} =>
          DevTotal(sampleSmall') <= DevTotal(sampleSmall)]_vars

\* the first slot of the first pass has replaced the record Phase 1 had put
\* in the first position
C29_Witness ==
    /\ pc = "phase2" /\ k = 0 /\ i = 2 /\ self.nGM = 2
    /\ recID[1] = minID
    /\ recID[1] # ArgMin([j \in 1..nBig |-> Phase1Err(j, 1, <<-1, -1>>)])
    /\ DevTotal(sampleSmall) > 0

\* select() has stopped: the fatal exit, an uncaught exception, or the return
Stopped == pc \in {"exit", "error", "done"}

\* the number of steps select() can still take: the rows left of Phase 1, the
\* slots and checks left of the nLoop passes, the report
StepsLeft ==
    IF pc = "start" THEN self.nGM + self.nLoop * (self.nGM + 1) + 2
    ELSE IF pc = "phase1" THEN (self.nGM - i + 1) + self.nLoop * (self.nGM + 1) + 1
    ELSE IF pc = "phase2"
         THEN (self.nLoop - k - 1) * (self.nGM + 1) + (self.nGM - i + 1) + 2
    ELSE IF pc = "check" THEN (self.nLoop - k - 1) * (self.nGM + 1) + 2
    ELSE IF pc = "report" THEN 1
    ELSE 0

\* a run that has not stopped is at the guard of one of the steps, the number
\* of steps left is never negative, and no pass goes beyond nLoop or slot
\* beyond nGM
SelectProgress ==
    /\ ~Stopped => pc \in {"start", "phase1", "phase2", "check", "report"}
    /\ StepsLeft >= 0
    /\ pc \in {"phase2", "check"} => k < self.nLoop /\ i \in 1..self.nGM

\* every step of select() lowers the number of steps left: with SelectProgress,
\* every run stops
SelectStops == [][StepsLeft' < StepsLeft]_vars

\* C30 (as stated): a run of select() ends in the Phase 1 fatal exit or in the
\* return after Phase 2, and in nothing else.
C30_ExitOrFinish == Stopped => pc \in {"exit", "done"}

----------------------------------------------------------------------------
(* Properties of an instance over several calls *)

\* C21 (as stated): once a create() has set the conditioning mode of an
\* instance, no later call changes it.
C21_ModeFixed ==
    [][("cond" \in DOMAIN self /\ "cond" \in DOMAIN self') => self'.cond = self.cond]_vars

----------------------------------------------------------------------------
(* Properties of the period array *)

\* a strictly increasing sequence of positive periods
StrictlyIncreasing(per) ==
    /\ \A x \in 1..Len(per) : per[x] > 0
    /\ \A x \in 1..(Len(per) - 1) : per[x] < per[x + 1]

\* C22 (as stated): after __init__ the period array of the database, and after
\* create() the target grid T, are strictly increasing sequences of positive
\* periods.
C22_GridIncreasing ==
    /\ cpc \in {"built", "done"} => StrictlyIncreasing(self.database.Periods)
    /\ cpc = "done" => StrictlyIncreasing(self.T)

(* Properties of the pool *)

\* the pool search_database() returns for the values SaKnown
PoolOf(obj, SaKnown) ==
    AtPeriods(Rows(SaKnown, Allowed(SaKnown, MwOf(obj), obj.Mw_lim)),
              obj.database.Periods, obj.T)

\* C23 (as stated): with selection = 2 the spectra of the pool follow Sa_def:
\* 'GeoMean' gives the geometric mean of the two components, 'RotDxx' the xx-th
\* percentile of the rotated components.
C23_PoolFollowsSaDef ==
    (pc = "searched" /\ self.selection = 2) => sampleBig = PoolOf(self, SaKnownByDef(self))

====
